---- MODULE Spec2Model ----
(***************************************************************************)
(* Model of scripts/manage_dependencies.py: the dependency report writer   *)
(* and the README status-section updater.                                  *)
(*                                                                         *)
(* Text is a sequence of tokens.  "#" is always a token of its own, so     *)
(* that "###" holds the end marker "##" at two offsets as it does in the   *)
(* characters of the file; every other token is a run of characters that   *)
(* holds no "#".  Positions are 0-based token offsets, as Python's         *)
(* str.find and slices are 0-based character offsets.                      *)
(***************************************************************************)
EXTENDS Integers, Sequences, FiniteSets, TLC

VARIABLES
    pc,             \* position of the running call
    entry,          \* function the process was entered through
    again,          \* update_readme_status still has a repeat call pending
    today,          \* the day datetime.now() answers
    readme,         \* README.md: [exists, text]
    reports,        \* reports/dependencies/dependency_report_<day>.json, by day
    report_path,    \* main's report_path (its day), "" before main computed it
    result,         \* check_updates' subprocess result of the last query
    gen_updates,    \* updates of generate_dependency_report
    upd_updates,    \* updates of update_readme_status
    status_section, \* "\n".join(status_section) of the last call
    prev_section,   \* the same of the call before it
    content_read,   \* content as read from README.md by the last call
    exc,            \* exception that ended the process, "" when none
    log             \* console output and external effects, in order

vars == <<pc, entry, again, today, readme, reports, report_path, result,
          gen_updates, upd_updates, status_section, prev_section,
          content_read, exc, log>>

-----------------------------------------------------------------------------
(* Bounds *)

MaxDocLen == 4
MaxPkgs == 2
MaxDay == 2

-----------------------------------------------------------------------------
(* Text *)

NL == "\n"
HASH == "#"
DEP == " Dependency Status"
TXT == "text"

Max(a, b) == IF a >= b THEN a ELSE b

\* content[a:b]
Slice(content, a, b) ==
    IF a >= b THEN <<>> ELSE [i \in 1..(b - a) |-> content[a + i]]

\* content[a:]
SliceFrom(content, a) == Slice(content, a, Len(content))

MatchAt(content, sub, i) ==
    /\ i + Len(sub) <= Len(content)
    /\ \A k \in 1..Len(sub) : content[i + k] = sub[k]

\* content.find(sub, start)
Find(content, sub, start) ==
    LET hits == {i \in start..(Len(content) - Len(sub)) : MatchAt(content, sub, i)}
    IN  IF hits = {} THEN -1 ELSE CHOOSE i \in hits : \A j \in hits : i <= j

RECURSIVE Join(_, _)
\* sep.join(lines)
Join(sep, lines) ==
    IF lines = <<>> THEN <<>>
    ELSE IF Len(lines) = 1 THEN lines[1]
    ELSE lines[1] \o sep \o Join(sep, Tail(lines))

start_marker == <<HASH, HASH, DEP>>
end_marker == <<HASH, HASH>>

-----------------------------------------------------------------------------
(* Dates: datetime.now() rendered three ways *)

Days == 1..MaxDay

\* strftime("%Y-%m-%d")
DateDash(d) == "2024-01-0" \o ToString(d)

\* strftime("%Y%m%d")
DateCompact(d) == "2024010" \o ToString(d)

\* isoformat(); the time of day is not modelled
DateIso(d) == DateDash(d) \o "T00:00:00"

\* Path("reports/dependencies") / f"dependency_report_{...}.json"
ReportPath(d) == "reports/dependencies/dependency_report_" \o DateCompact(d) \o ".json"

ReportPaths == {ReportPath(d) : d \in Days}

-----------------------------------------------------------------------------
(* The external tool: poetry show --outdated --json *)

BoundedSeq(S, n) == UNION {[1..k -> S] : k \in 0..n}

\* objects of a well-formed listing
Objs == {[name |-> "a", version |-> "1.0", latest |-> "1.0"],
         [name |-> "b", version |-> "1.0", latest |-> "2.0"]}

\* text that json.loads rejects
NonJson == [json |-> FALSE, value |-> <<>>]

\* valid JSON whose object lacks the "latest" key
BadShape == [json |-> TRUE, value |-> <<[name |-> "a", version |-> "1.0"]>>]

Stdouts == {NonJson, BadShape}
           \cup {[json |-> TRUE, value |-> v] : v \in BoundedSeq(Objs, MaxPkgs)}

\* found = FALSE: no poetry executable, subprocess.run raises
ToolOutcomes == {[found |-> FALSE, returncode |-> 0, stdout |-> NonJson]}
                \cup {[found |-> TRUE, returncode |-> rc, stdout |-> so] :
                        rc \in {0, 1}, so \in Stdouts}

WellFormed(so) ==
    so.json /\ \A i \in 1..Len(so.value) :
                  {"name", "version", "latest"} \subseteq DOMAIN so.value[i]

\* check_updates: [raised, updates, printed]
CheckUpdates(res) ==
    IF ~res.found
    THEN [raised |-> "FileNotFoundError", updates |-> <<>>, printed |-> <<>>]
    ELSE IF ~res.stdout.json
    THEN [raised |-> "", updates |-> <<>>,
          printed |-> <<"print Error parsing poetry output">>]
    ELSE IF ~WellFormed(res.stdout)
    THEN [raised |-> "KeyError", updates |-> <<>>, printed |-> <<>>]
    ELSE [raised |-> "",
          updates |-> [i \in 1..Len(res.stdout.value) |->
                         <<res.stdout.value[i].name,
                           res.stdout.value[i].version,
                           res.stdout.value[i].latest>>],
          printed |-> <<>>]

-----------------------------------------------------------------------------
(* generate_dependency_report *)

\* ReportPackages with the comparison of needs_update inverted
ReportPackagesInverted(updates) ==
    [i \in 1..Len(updates) |->
        [name |-> updates[i][1],
         current |-> updates[i][2],
         latest |-> updates[i][3],
         needs_update |-> (updates[i][2] = updates[i][3])]]

\* the "packages" list of the report
ReportPackages(updates) ==
    [i \in 1..Len(updates) |->
        [name |-> updates[i][1],
         current |-> updates[i][2],
         latest |-> updates[i][3],
         needs_update |-> (updates[i][2] # updates[i][3])]]

NoReport == [exists |-> FALSE, timestamp |-> "", packages |-> <<>>]

Report(day, updates) ==
    [exists |-> TRUE, timestamp |-> DateIso(day), packages |-> ReportPackages(updates)]

-----------------------------------------------------------------------------
(* update_readme_status *)

\* the status label, without its leading glyph
Status(current, latest) ==
    IF current = latest THEN "Up to date" ELSE "Update available"

\* one table row: a single token, it holds no "#"
Row(update) ==
    <<"| " \o update[1] \o " | " \o update[2] \o " | "
      \o Status(update[2], update[3]) \o " |">>

\* the list status_section
SectionLines(day, updates) ==
    << <<HASH, HASH, DEP, " (Updated: " \o DateDash(day) \o ")">>,
       <<>>,
       <<HASH, HASH, HASH, " Core Dependencies">>,
       <<"| Package | Version | Status |">>,
       <<"|---------|---------|--------|">> >>
    \o [i \in 1..Len(updates) |-> Row(updates[i])]

\* "\n".join(status_section)
RenderSection(day, updates) == Join(<<NL>>, SectionLines(day, updates))

\* EndIdx searching from start_idx itself, so the start marker is its own end
EndIdxFromStart(content, start_idx) ==
    LET end_idx == Find(content, end_marker, start_idx)
    IN  IF end_idx = -1 THEN Len(content) ELSE end_idx

\* the end of the section that starts at start_idx
EndIdx(content, start_idx) ==
    LET end_idx == Find(content, end_marker, start_idx + Len(start_marker))
    IN  IF end_idx = -1 THEN Len(content) ELSE end_idx

\* Splice appending after a single newline
SpliceOneNewline(content, section) ==
    LET start_idx == Find(content, start_marker, 0)
    IN  IF start_idx = -1
        THEN content \o <<NL>> \o section
        ELSE Slice(content, 0, start_idx) \o section \o <<NL, NL>>
             \o SliceFrom(content, EndIdx(content, start_idx))

\* Splice closing the appended section with two newlines, as the replaced one
SpliceTrailing(content, section) ==
    LET start_idx == Find(content, start_marker, 0)
    IN  IF start_idx = -1
        THEN content \o <<NL, NL>> \o section \o <<NL, NL>>
        ELSE Slice(content, 0, start_idx) \o section \o <<NL, NL>>
             \o SliceFrom(content, EndIdx(content, start_idx))

\* Splice that never looks for the section and always appends
SpliceAlwaysAppend(content, section) == content \o <<NL, NL>> \o section

\* the new content of README.md
Splice(content, section) ==
    LET start_idx == Find(content, start_marker, 0)
    IN  IF start_idx = -1
        THEN content \o <<NL, NL>> \o section
        ELSE Slice(content, 0, start_idx)
             \o section
             \o <<NL, NL>>
             \o SliceFrom(content, EndIdx(content, start_idx))

NoReadme == [exists |-> FALSE, text |-> <<>>]

-----------------------------------------------------------------------------
(* README contents the runs start from *)

Alphabet == {HASH, DEP, TXT}

TitleDoc == <<HASH, " Title", NL, NL, "Some text.", NL>>

SectionDoc ==
    <<HASH, HASH, DEP, " (Updated: 2024-01-01)", NL, "old", NL, NL,
      HASH, HASH, " Other", NL, "keep">>

TwoSectionDoc == <<HASH, HASH, DEP, NL, TXT, NL, HASH, HASH, DEP, NL, TXT>>

Docs == BoundedSeq(Alphabet, MaxDocLen) \cup {TitleDoc, SectionDoc, TwoSectionDoc}

Readmes == {NoReadme} \cup {[exists |-> TRUE, text |-> d] : d \in Docs}

-----------------------------------------------------------------------------
(* The process *)

Running == pc \in {"main", "generate", "update", "summary"}

\* where update_readme_status returns to
Return == IF entry = "main" THEN "summary" ELSE "returned"

\* the existence check left out
ReadmeExistsAlways == TRUE

\* readme_path.exists()
ReadmeExists == readme.exists

\* the day changes while the process runs
Midnight ==
    /\ Running
    /\ today < MaxDay
    /\ today' = today + 1
    /\ UNCHANGED <<pc, entry, again, readme, reports, report_path, result,
                   gen_updates, upd_updates, status_section, prev_section,
                   content_read, exc, log>>

\* main, up to its call of generate_dependency_report
Main ==
    /\ pc = "main"
    /\ log' = log \o <<"print Dependency Management">>
    /\ report_path' = ReportPath(today)
    /\ pc' = "generate"
    /\ UNCHANGED <<entry, again, today, readme, reports, result, gen_updates,
                   upd_updates, status_section, prev_section, content_read, exc>>

GenerateDependencyReport ==
    /\ pc = "generate"
    /\ \E res \in ToolOutcomes :
         LET r == CheckUpdates(res) IN
         /\ result' = [found |-> res.found, stdout |-> res.stdout]
         /\ IF r.raised # ""
            THEN /\ pc' = "crashed"
                 /\ exc' = r.raised
                 /\ log' = log \o <<"query">>
                 /\ UNCHANGED <<gen_updates, reports>>
            ELSE /\ pc' = "update"
                 /\ gen_updates' = r.updates
                 /\ reports' = [reports EXCEPT ![report_path] = Report(today, r.updates)]
                 /\ log' = log \o <<"query">> \o r.printed
                               \o <<"print table", "write report", "print Report saved">>
                 /\ UNCHANGED exc
    /\ UNCHANGED <<entry, again, today, readme, report_path, upd_updates,
                   status_section, prev_section, content_read>>

UpdateReadmeStatus ==
    /\ pc = "update"
    /\ IF ~ReadmeExists
       THEN /\ log' = log \o <<"print README.md not found">>
            /\ pc' = Return
            /\ UNCHANGED <<readme, result, upd_updates, status_section,
                           prev_section, content_read, exc>>
       ELSE \E res \in ToolOutcomes :
              LET r == CheckUpdates(res)
                  section == RenderSection(today, r.updates)
              IN
              /\ result' = [found |-> res.found, stdout |-> res.stdout]
              /\ IF r.raised # ""
                 THEN /\ pc' = "crashed"
                      /\ exc' = r.raised
                      /\ log' = log \o <<"query">>
                      /\ UNCHANGED <<readme, upd_updates, status_section,
                                     prev_section, content_read>>
                 ELSE /\ pc' = Return
                      /\ upd_updates' = r.updates
                      /\ prev_section' = status_section
                      /\ status_section' = section
                      /\ content_read' = readme.text
                      /\ readme' = [exists |-> TRUE, text |-> Splice(readme.text, section)]
                      /\ log' = log \o <<"query">> \o r.printed
                                    \o <<"write README", "print Updated dependency status">>
                      /\ UNCHANGED exc
    /\ UNCHANGED <<entry, again, today, reports, report_path, gen_updates>>

\* main, after update_readme_status returned
Summary ==
    /\ pc = "summary"
    /\ log' = log \o <<"print tasks completed", "print 1. Generated dependency report",
                       "print 2. Updated README.md">>
    /\ pc' = "done"
    /\ UNCHANGED <<entry, again, today, readme, reports, report_path, result,
                   gen_updates, upd_updates, status_section, prev_section,
                   content_read, exc>>

\* update_readme_status is called a second time
CallAgain ==
    /\ pc = "returned"
    /\ again
    /\ again' = FALSE
    /\ pc' = "update"
    /\ UNCHANGED <<entry, today, readme, reports, report_path, result,
                   gen_updates, upd_updates, status_section, prev_section,
                   content_read, exc, log>>

\* Splice alone, on the inputs held in content_read and status_section
ApplySplice ==
    /\ pc = "splice"
    /\ readme' = [exists |-> TRUE, text |-> Splice(content_read, status_section)]
    /\ pc' = "spliced"
    /\ UNCHANGED <<entry, again, today, reports, report_path, result,
                   gen_updates, upd_updates, status_section, prev_section,
                   content_read, exc, log>>

InitCommon ==
    /\ today = 1
    /\ reports = [p \in ReportPaths |-> NoReport]
    /\ report_path = ""
    /\ result = [found |-> TRUE, stdout |-> NonJson]
    /\ gen_updates = <<>>
    /\ upd_updates = <<>>
    /\ prev_section = <<>>
    /\ exc = ""
    /\ log = <<>>

\* python scripts/manage_dependencies.py
Init ==
    /\ InitCommon
    /\ entry = "main"
    /\ pc = "main"
    /\ again = FALSE
    /\ readme \in Readmes
    /\ status_section = <<>>
    /\ content_read = <<>>

Next == Main \/ GenerateDependencyReport \/ UpdateReadmeStatus \/ Summary \/ Midnight

Spec == Init /\ [][Next]_vars

\* update_readme_status called twice in succession
InitReadme ==
    /\ InitCommon
    /\ entry = "update_readme_status"
    /\ pc = "update"
    /\ again = TRUE
    /\ readme \in Readmes
    /\ status_section = <<>>
    /\ content_read = <<>>

NextReadme == UpdateReadmeStatus \/ CallAgain \/ Midnight

SpecReadme == InitReadme /\ [][NextReadme]_vars

\* replacement texts: the two of the worked examples and rendered sections
AppendRepl == <<HASH, HASH, DEP, NL, "row1", NL, "row2">>

ReplaceRepl == <<HASH, HASH, DEP, " (Updated: 2024-01-02)", NL, "new">>

Replacements ==
    {AppendRepl, ReplaceRepl}
    \cup {RenderSection(d, CheckUpdates([found |-> TRUE, stdout |-> so]).updates) :
            d \in Days, so \in {x \in Stdouts : WellFormed(x)}}

InitSplice ==
    /\ InitCommon
    /\ entry = "splice"
    /\ pc = "splice"
    /\ again = FALSE
    /\ content_read \in Docs
    /\ status_section \in Replacements
    /\ readme = [exists |-> TRUE, text |-> content_read]

NextSplice == ApplySplice

SpecSplice == InitSplice /\ [][NextSplice]_vars

-----------------------------------------------------------------------------
(* Properties *)

IsStartAt(c, i) ==
    /\ i >= 0
    /\ i + 3 <= Len(c)
    /\ c[i + 1] = "#" /\ c[i + 2] = "#" /\ c[i + 3] = " Dependency Status"

IsEndAt(c, i) ==
    /\ i >= 0
    /\ i + 2 <= Len(c)
    /\ c[i + 1] = "#" /\ c[i + 2] = "#"

HasStart(c) == \E i \in 0..Len(c) : IsStartAt(c, i)

\* s: the first position of the start marker
FirstStart(c) ==
    CHOOSE i \in 0..Len(c) : IsStartAt(c, i) /\ \A j \in 0..(i - 1) : ~IsStartAt(c, j)

\* e: the first position of the end marker at or after s + 3, else the end
SectionEnd(c) ==
    LET from == FirstStart(c) + 3
        ends == {i \in from..Len(c) : IsEndAt(c, i)}
    IN  IF ends = {} THEN Len(c) ELSE CHOOSE i \in ends : \A j \in ends : i <= j

StartCount(c) == Cardinality({i \in 0..Len(c) : IsStartAt(c, i)})

\* a call of update_readme_status has written README.md
Wrote == status_section # <<>>

\* C1: when update_readme_status has run twice in succession with the same
\* rendered section, the README after the second run equals the README after
\* the first run.
C1_Idempotent ==
    (pc = "returned" /\ ~again /\ prev_section # <<>> /\ status_section = prev_section)
        => readme.text = content_read

\* C2: at the end of a run of main that updated the README, the section
\* written to the README is the rendering of exactly the entries, in order,
\* that the run wrote to the JSON report.
C2_SameEntries ==
    (pc = "done" /\ readme.exists)
        => LET pk == reports[report_path].packages
               triples == [i \in 1..Len(pk) |-> <<pk[i].name, pk[i].current, pk[i].latest>>]
           IN  \E d \in Days : status_section = RenderSection(d, triples)

\* C3: after a query in which the tool was missing or printed text that is
\* not JSON, no exception has escaped, the diagnostic was printed, the query
\* returned an empty sequence and the run went on.
C3_ToolFailureRecovered ==
    LET queried == \E i \in 1..Len(log) : log[i] = "query"
        failed == ~result.found \/ ~result.stdout.json
        updates == IF pc = "update" THEN gen_updates ELSE upd_updates
    IN  (queried /\ failed)
            => /\ exc = ""
               /\ pc # "crashed"
               /\ updates = <<>>
               /\ \E i \in 1..Len(log) : log[i] = "print Error parsing poetry output"

\* C4: when the start marker is present, with s its first position and e the
\* first position of "##" at or after s + 3 (the end of the document if there
\* is none), the README written is content[0..s), the rendered section, two
\* newlines, content[e..end).
C4_ReplaceRange ==
    (Wrote /\ HasStart(content_read))
        => LET c == content_read
               t == readme.text
               s == FirstStart(c)
               e == SectionEnd(c)
               n == Len(status_section)
           IN  /\ Len(t) = s + n + 2 + (Len(c) - e)
               /\ \A i \in 1..s : t[i] = c[i]
               /\ \A i \in 1..n : t[s + i] = status_section[i]
               /\ t[s + n + 1] = "\n" /\ t[s + n + 2] = "\n"
               /\ \A i \in 1..(Len(c) - e) : t[s + n + 2 + i] = c[e + i]

C4_Witness ==
    /\ Wrote
    /\ HasStart(content_read)
    /\ FirstStart(content_read) > 0
    /\ SectionEnd(content_read) < Len(content_read)

\* C5: when the start marker occurs nowhere in the README, the README written
\* is the original content, two newlines, the rendered section, and nothing
\* after it.
C5_AppendWhenAbsent ==
    (Wrote /\ ~HasStart(content_read))
        => readme.text = content_read \o <<"\n", "\n">> \o status_section

C5_Witness == Wrote /\ ~HasStart(content_read) /\ content_read # <<>>

\* C6 as stated: splicing "## Dependency Status\nrow1\nrow2" into
\* "# Title\n\nSome text.\n" yields
\* "# Title\n\nSome text.\n\n## Dependency Status\nrow1\nrow2\n\n".
C6_Example ==
    (pc = "spliced" /\ content_read = TitleDoc /\ status_section = AppendRepl)
        => readme.text = <<"#", " Title", "\n", "\n", "Some text.", "\n", "\n",
                           "#", "#", " Dependency Status", "\n", "row1", "\n", "row2",
                           "\n", "\n">>

\* C6 amended: the same splice yields
\* "# Title\n\nSome text.\n\n\n## Dependency Status\nrow1\nrow2": two newlines
\* are added before the section and none after it.
C6_ExampleAmended ==
    (pc = "spliced" /\ content_read = TitleDoc /\ status_section = AppendRepl)
        => readme.text = <<"#", " Title", "\n", "\n", "Some text.", "\n", "\n", "\n",
                           "#", "#", " Dependency Status", "\n", "row1", "\n", "row2">>

C6_Witness == pc = "spliced" /\ content_read = TitleDoc /\ status_section = AppendRepl

\* C7: for a well-formed tool output, the packages of the report written by
\* generate_dependency_report have the length and order of the sequence
\* check_updates returned, each entry carries that element's name, current
\* and latest, and needs_update is true iff current differs from latest.
C7_ReportMatchesQuery ==
    (pc = "update" /\ WellFormed(result.stdout))
        => LET rep == reports[report_path]
               out == result.stdout.value
           IN  /\ rep.exists
               /\ Len(rep.packages) = Len(out)
               /\ Len(gen_updates) = Len(out)
               /\ \A i \in 1..Len(out) :
                     /\ gen_updates[i] = <<out[i].name, out[i].version, out[i].latest>>
                     /\ rep.packages[i].name = out[i].name
                     /\ rep.packages[i].current = out[i].version
                     /\ rep.packages[i].latest = out[i].latest
                     /\ rep.packages[i].needs_update <=> (out[i].version # out[i].latest)

C7_Witness ==
    /\ pc = "update"
    /\ WellFormed(result.stdout)
    /\ Len(reports[report_path].packages) = 2
    /\ reports[report_path].packages[1].needs_update
    /\ ~reports[report_path].packages[2].needs_update

\* C8: when README.md does not exist as update_readme_status runs, the step
\* prints its diagnostic and does nothing else: README.md is not created, the
\* tool is not queried, no exception is raised, the report written earlier
\* stays in place and main goes on to its summary.
C8_MissingReadmeSkipped ==
    [][(pc = "update" /\ pc' # "update" /\ ~readme.exists /\ entry = "main")
          => /\ readme' = readme
             /\ reports' = reports
             /\ reports[report_path].exists
             /\ result' = result
             /\ exc' = ""
             /\ log' = Append(log, "print README.md not found")
             /\ pc' = "summary"]_vars

C8_Witness ==
    /\ pc = "summary"
    /\ ~readme.exists
    /\ reports[report_path].exists
    /\ log[Len(log)] = "print README.md not found"

Phase(event) ==
    CASE event = "query" -> 1
      [] event = "write report" -> 2
      [] event = "write README" -> 3
      [] event = "print tasks completed" -> 4
      [] OTHER -> 0

\* C9: in a run of main the steps happen in the order query, write the
\* report, update the README, print the summary, and no step of an earlier
\* phase occurs after a step of a later phase.
C9_PhaseOrder ==
    \A i, j \in 1..Len(log) :
        (i < j /\ Phase(log[i]) > 0 /\ Phase(log[j]) > 0)
            => Phase(log[i]) <= Phase(log[j])

\* C10: a run of update_readme_status that writes the README leaves the
\* number of occurrences of "## Dependency Status" equal to max(1, the number
\* before the run).
C10_StartCount ==
    Wrote => StartCount(readme.text) = Max(1, StartCount(content_read))

C10_Witness == Wrote /\ StartCount(content_read) = 2 /\ pc = "returned"

====
